---- MODULE Spec2Model ----
(***************************************************************************)
(* Model of the transclusion compiler of at-reference                      *)
(* (packages/core/src/compiler.ts and its collaborators).                  *)
(*                                                                         *)
(* A document is a sequence of tokens: a heading line, a front-matter      *)
(* block, an @reference, and in compiled text the opening tag, closing tag *)
(* and self-closing stub of a <file> block.  Offsets (startIndex/endIndex) *)
(* are 0-based token positions, so a replacement changes the length of the *)
(* working text exactly as a string splice does.                           *)
(***************************************************************************)
EXTENDS Integers, Sequences, FiniteSets, TLC

\* ---------------------------------------------------------------- bounds
\* Largest number of @references in all documents of the file system together.
MaxTotalRefs == 3

\* ------------------------------------------------------------ file system
Root == <<"r">>
Names == {"a", "b", "c"}
P(n) == Append(Root, n)
Paths == {P(n) : n \in Names}
NoPath == <<"", "">>
VirtualName == "__virtual__"

dirname(p) == SubSeq(p, 1, Len(p) - 1)
join(base, name) == Append(base, name)

\* --------------------------------------------------------------- tokens
Tok(k, p, ref, lv) == [k |-> k, p |-> p, ref |-> ref, lv |-> lv]
HeadingTok(p, lv) == Tok("h", p, "", lv)
RefTok(name) == Tok("ref", NoPath, name, 0)
FrontMatterTok == Tok("fm", NoPath, "", 0)

\* `<file path="P">\n\n${content}\n\n</file>`
defaultContentWrapper(c, filePath) ==
  <<Tok("open", filePath, "", 0)>> \o c \o <<Tok("close", filePath, "", 0)>>

\* `<file path="P" />`
referenceWrapper(filePath) == <<Tok("stub", filePath, "", 0)>>

\* content.slice(from, to) with 0-based offsets, to exclusive
slice(s, from, to) == SubSeq(s, from + 1, to)

\* compiledContent.slice(0, start) + replacement + compiledContent.slice(end)
splice(s, start, end, repl) ==
  slice(s, 0, start) \o repl \o slice(s, end, Len(s))

Range(s) == {s[i] : i \in DOMAIN s}
Reverse(s) == [i \in 1..Len(s) |-> s[Len(s) + 1 - i]]
MinOf(S) == CHOOSE x \in S : \A y \in S : x <= y
MaxOf(S) == CHOOSE x \in S : \A y \in S : x >= y

\* ------------------------------------------------------------- parser.ts
\* A leading metadata block is dropped, anything else is kept.
stripFrontMatter(c) ==
  IF Len(c) > 0 /\ c[1].k = "fm" THEN Tail(c) ELSE c

\* One reference per @token, in source order, with its offsets.
extractReferences(c) ==
  LET idx == {i \in DOMAIN c : c[i].k = "ref"}
      nth(n) == CHOOSE i \in idx : Cardinality({j \in idx : j < i}) = n - 1
  IN [n \in 1..Cardinality(idx) |->
        [path |-> c[nth(n)].ref, startIndex |-> nth(n) - 1, endIndex |-> nth(n)]]

\* ----------------------------------------------------------------- state
VARIABLES
  kind,               \* file system: path -> "file" | "locked" | "dir" | "none"
  content,            \* file system: path -> text of the file
  entry,              \* "file" (compileFile), "content" (compileContent), "folder"
  optimizeDuplicates, \* CompileOptions.optimizeDuplicates
  headingMode,        \* CompileOptions.headingMode
  pc,                 \* "idle" | "run" | "done" | "threw"; folder: "next" between documents
  stack,              \* call stack of compileContentRecursive, innermost frame last
  importCounts,       \* run-scoped Map<string, number>
  importedFiles,      \* run-scoped Set<string>
  results,            \* CompileResult list (one entry for compileFile/compileContent)
  sorted,             \* compileFolder: the order returned by topologicalSort
  disk,               \* output files written so far: input path -> text
  args,               \* the arguments of a direct call of a library function
  ret,                \* what that call returned
  visitedPaths,       \* validateReferencesRecursive: the Set shared by one top-level call
  scans,              \* validateReferencesRecursive: file -> times its text was scanned
  openDocuments,      \* editor: vscode.workspace.textDocuments
  debounceTimers,     \* diagnostics provider: Map<string, Timeout>, as uri -> timer id
  timers,             \* event loop: the timeouts set and neither fired nor cleared
  diagnosticCollection \* diagnostics provider: uri -> published diagnostics

vars == <<kind, content, entry, optimizeDuplicates, headingMode, pc, stack,
          importCounts, importedFiles, results, sorted, disk, args, ret,
          visitedPaths, scans, openDocuments, debounceTimers, timers,
          diagnosticCollection>>

\* The validator and the editor extension take no part in a compile.
ValidatorUnchanged == UNCHANGED <<visitedPaths, scans>>
ProviderUnchanged ==
  UNCHANGED <<openDocuments, debounceTimers, timers, diagnosticCollection>>
ValidatorIdle == visitedPaths = {} /\ scans = <<>>
ProviderIdle ==
  /\ openDocuments = {}
  /\ debounceTimers = <<>>
  /\ timers = {}
  /\ diagnosticCollection = <<>>

KindOf(p) == IF p \in DOMAIN kind THEN kind[p] ELSE "none"

\* ----------------------------------------------------------- resolver.ts
\* A reference path as written: what it starts with ("/", "./", "../" or
\* nothing) and the segments after that.
RefPath(lead, segs) == [lead |-> lead, segs |-> segs]
\* The path of a reference the parser found in a document of the model.
\* path.resolve splits what was written at every "/": "d/n" is n in d.
segmentsOf(name) == IF name = "d/n" THEN <<"d", "n">> ELSE <<name>>
Bare(name) == RefPath("", segmentsOf(name))

\* path.isAbsolute on a POSIX path
isAbsolute(refPath) == refPath.lead = "/"
\* path.resolve(basePath, refPath), normalized
resolve(basePath, refPath) ==
  IF refPath.lead = "../" THEN dirname(basePath) \o refPath.segs
  ELSE basePath \o refPath.segs

existsSync(p) == KindOf(p) # "none"
createResult(resolvedPath) ==
  [resolvedPath |-> resolvedPath,
   exists       |-> TRUE,
   isDirectory  |-> KindOf(resolvedPath) = "dir"]

\* targetPath + ext
withExt(p, ext) == [p EXCEPT ![Len(p)] = @ \o ext]
\* path.join(targetPath, `index${ext}`)
indexPath(p, ext) == join(p, "index" \o ext)

\* The first element of candidates that exists, if any.
FirstExisting(candidates) ==
  LET hits == {i \in DOMAIN candidates : existsSync(candidates[i])}
  IN IF hits = {} THEN <<>> ELSE <<candidates[MinOf(hits)]>>

resolvePath(refPath, basePath, tryExtensions) ==
  LET targetPath ==
        IF isAbsolute(refPath) THEN refPath.segs
        ELSE IF refPath.lead = "./" \/ refPath.lead = "../" THEN resolve(basePath, refPath)
        ELSE IF refPath.lead = "/" THEN resolve(basePath, RefPath("./", refPath.segs))
        ELSE resolve(basePath, refPath)
      byExt == FirstExisting([i \in DOMAIN tryExtensions |->
                                withExt(targetPath, tryExtensions[i])])
      byIndex == FirstExisting([i \in DOMAIN tryExtensions |->
                                  indexPath(targetPath, tryExtensions[i])])
  IN IF existsSync(targetPath) THEN createResult(targetPath)
     ELSE IF byExt # <<>> THEN createResult(byExt[1])
     ELSE IF byIndex # <<>> THEN createResult(byIndex[1])
     ELSE [resolvedPath |-> targetPath, exists |-> FALSE, isDirectory |-> FALSE]

\* compiler.ts:226: the engine's default for the tryExtensions option
DefaultTryExtensions == <<>>

\* fs.readFileSync succeeds on a readable regular file and throws otherwise.
CanRead(p) == KindOf(p) = "file"

\* --------------------------------------------------- heading-adjuster.ts
\* Token positions covered by a match of
\*   /<file\s[^>]*>[\s\S]*?<\/file>|<file\s[^>]*\/>/g
\* scanning from position i.  The first alternative also matches at a
\* self-closing tag (its "/>" ends with ">"), and then runs lazily to the
\* next closing tag; a self-closing tag with no closing tag after it is
\* matched alone by the second alternative.
RECURSIVE fileBlockRanges(_, _)
fileBlockRanges(c, i) ==
  IF i > Len(c) THEN {}
  ELSE IF c[i].k \in {"open", "stub"}
       THEN LET closes == {j \in (i + 1)..Len(c) : c[j].k = "close"}
            IN IF closes # {}
               THEN (i..MinOf(closes)) \cup fileBlockRanges(c, MinOf(closes) + 1)
               ELSE IF c[i].k = "stub"
                    THEN {i} \cup fileBlockRanges(c, i + 1)
                    ELSE fileBlockRanges(c, i + 1)
       ELSE fileBlockRanges(c, i + 1)

findExcludedRanges(c, includeFileBlocks) ==
  IF includeFileBlocks THEN fileBlockRanges(c, 1) ELSE {}

\* Positions of the headings outside code blocks and <file> blocks.
extractHeadings(c) ==
  {i \in DOMAIN c : c[i].k = "h" /\ i \notin findExcludedRanges(c, TRUE)}

\* Faulty variant: the lower end of the range is not enforced.
clampLevel_NoFloor(lv) == IF lv > 6 THEN 6 ELSE lv

\* Math.max(1, Math.min(targetLevel, 6))
clampLevel(lv) == IF lv > 6 THEN 6 ELSE IF lv < 1 THEN 1 ELSE lv

adjustHeadings(c, shiftAmount, skipFileBlocks) ==
  IF shiftAmount = 0 THEN c
  ELSE LET excluded == findExcludedRanges(c, skipFileBlocks)
       IN [i \in DOMAIN c |->
             IF c[i].k = "h" /\ i \notin excluded
             THEN [c[i] EXCEPT !.lv = clampLevel(c[i].lv + shiftAmount)]
             ELSE c[i]]

normalizeHeadings(c, targetLevel, skipFileBlocks) ==
  LET headings == extractHeadings(c)
  IN IF headings = {} THEN c
     ELSE adjustHeadings(c, targetLevel - c[MinOf(headings)].lv, skipFileBlocks)

\* startIndex -> level of the last heading before the reference, 0 if none
analyzeHeadingContext(c, references) ==
  LET headings == extractHeadings(c)
      before(r) == {h \in headings : h - 1 < r.startIndex}
  IN [s \in {references[n].startIndex : n \in DOMAIN references} |->
        LET r == CHOOSE q \in Range(references) : q.startIndex = s
        IN IF before(r) = {} THEN 0 ELSE c[MaxOf(before(r))].lv]

\* ----------------------------------------------- compiler.ts: the engine
\* Faulty variant: the references are taken in source order.
sortedRefs_Forward(references) == references

\* Sort by startIndex in reverse order (compiler.ts:265).
sortedRefs(references) ==
  [i \in 1..Len(references) |->
     CHOOSE r \in Range(references) :
       Cardinality({q \in Range(references) : q.startIndex > r.startIndex}) = i - 1]

\* Faulty variant: only the immediate parent is compared.
InPathStack_ParentOnly(pathStack, resolvedPath) ==
  Len(pathStack) > 0 /\ pathStack[Len(pathStack)] = resolvedPath

\* Faulty variant: the root document is left out of the comparison.
InPathStack_SkipsRoot(pathStack, resolvedPath) ==
  \E i \in DOMAIN pathStack : i > 1 /\ pathStack[i] = resolvedPath

\* pathStack.includes(resolvedPath)
InPathStack(pathStack, resolvedPath) ==
  \E i \in DOMAIN pathStack : pathStack[i] = resolvedPath

\* resolved.exists && !resolved.isDirectory
IsFile(resolved) == resolved.exists /\ ~resolved.isDirectory

\* Faulty variant: the pre-scan forgets what it has seen in this text.
RECURSIVE prescan_NoSeen(_, _, _, _, _, _)
prescan_NoSeen(references, i, basePath, imported, seenPaths, acc) ==
  IF i > Len(references) THEN acc
  ELSE LET resolved == resolvePath(Bare(references[i].path), basePath, DefaultTryExtensions)
       IN IF IsFile(resolved) /\ resolved.resolvedPath \notin imported
          THEN prescan_NoSeen(references, i + 1, basePath, imported, seenPaths,
                              acc \cup {references[i].startIndex})
          ELSE prescan_NoSeen(references, i + 1, basePath, imported, seenPaths, acc)

\* The forward pre-scan that fills firstOccurrenceIndices.
RECURSIVE prescan(_, _, _, _, _, _)
prescan(references, i, basePath, imported, seenPaths, acc) ==
  IF i > Len(references) THEN acc
  ELSE LET resolved == resolvePath(Bare(references[i].path), basePath, DefaultTryExtensions)
       IN IF IsFile(resolved)
             /\ resolved.resolvedPath \notin imported
             /\ resolved.resolvedPath \notin seenPaths
          THEN prescan(references, i + 1, basePath, imported,
                       seenPaths \cup {resolved.resolvedPath},
                       acc \cup {references[i].startIndex})
          ELSE prescan(references, i + 1, basePath, imported, seenPaths, acc)

firstOccurrenceIndices(references, basePath, imported, optimize) ==
  IF optimize THEN prescan(references, 1, basePath, imported, {}, {}) ELSE {}

\* A CompiledReference.  doc is the document whose text holds the reference;
\* inlined tells the three shapes of `content` apart: absent, '' (stub), text.
CompiledRef(doc, ref, resolved) ==
  [doc |-> doc, startIndex |-> ref.startIndex, path |-> ref.path,
   resolvedPath |-> resolved.resolvedPath, found |-> IsFile(resolved),
   circular |-> FALSE, error |-> "", importCount |-> 0,
   importedFrom |-> NoPath, inlined |-> "none"]

NoRef == [doc |-> NoPath, startIndex |-> 0, path |-> "", resolvedPath |-> NoPath,
          found |-> FALSE, circular |-> FALSE, error |-> "", importCount |-> 0,
          importedFrom |-> NoPath, inlined |-> "none"]

\* The locals of one invocation of compileContentRecursive at its entry:
\* front matter stripped, references extracted, heading context analysed,
\* first occurrences pre-scanned.  k counts the references processed so far;
\* pending is the record of the reference whose target is being expanded.
NewFrame(c, currentFilePath, basePath, pathStack, headingContext, imported, optimize) ==
  LET processedContent == stripFrontMatter(c)
      references == extractReferences(processedContent)
  IN [file |-> currentFilePath,
      basePath |-> basePath,
      text |-> processedContent,
      refs |-> references,
      contextMap |-> analyzeHeadingContext(processedContent, references),
      firstOcc |-> firstOccurrenceIndices(references, basePath, imported, optimize),
      k |-> 0,
      compiledRefs |-> <<>>,
      pathStack |-> pathStack,
      headingContext |-> headingContext,
      pending |-> NoRef]

\* The heading adjustment at the end of an invocation (compiler.ts:368-382).
finalHeadings(text, mode, headingContext) ==
  IF mode = "additive"
  THEN IF headingContext > 0 THEN adjustHeadings(text, headingContext, TRUE) ELSE text
  ELSE IF headingContext >= 0
       THEN normalizeHeadings(text, headingContext + 1, FALSE) ELSE text

\* What an invocation returns.
FrameResult(f, mode) ==
  [compiledContent |-> finalHeadings(f.text, mode, f.headingContext),
   references |-> Reverse(f.compiledRefs)]

childHeadingContext(mode, headingContext, localContextLevel) ==
  IF mode = "additive" THEN headingContext + localContextLevel ELSE localContextLevel

\* Faulty variant: the root document is given the context of a document
\* inlined under no heading.
initialHeadingContext_Zero(mode) == 0

initialHeadingContext(mode) == IF mode = "additive" THEN 0 ELSE -1

Depth == Len(stack)
Top == stack[Depth]
Running == pc = "run" /\ Depth > 0
HasNext == Running /\ Top.k < Len(Top.refs)
CurRef == sortedRefs(Top.refs)[Top.k + 1]
CurResolved == resolvePath(Bare(CurRef.path), Top.basePath, DefaultTryExtensions)
CurPath == CurResolved.resolvedPath
CurCount == IF CurPath \in DOMAIN importCounts THEN importCounts[CurPath] ELSE 0

SetTop(f) == [stack EXCEPT ![Depth] = f]
PushRef(f, rec) == [f EXCEPT !.compiledRefs = Append(@, rec), !.k = @ + 1]
\* Faulty variant: the map is rebuilt with the current path alone.
BumpCount_Forgets == (CurPath :> (CurCount + 1))

BumpCount == (CurPath :> (CurCount + 1)) @@ importCounts

FsUnchanged ==
  /\ UNCHANGED <<kind, content, entry, optimizeDuplicates, headingMode, args, ret>>
  /\ ValidatorUnchanged /\ ProviderUnchanged

\* ------------------------------------- one iteration of the for-loop
\* Faulty variant: an existing file is imported without regard to the path stack.
FileCase_IgnoresStack == HasNext /\ IsFile(CurResolved)

\* The branch the loop body takes on the current reference.
CircularCase == HasNext /\ InPathStack(Top.pathStack, CurPath)
FileCase ==
  HasNext /\ ~InPathStack(Top.pathStack, CurPath) /\ IsFile(CurResolved)
StubCase == FileCase /\ optimizeDuplicates /\ CurRef.startIndex \notin Top.firstOcc
InlineCase == FileCase /\ ~(optimizeDuplicates /\ CurRef.startIndex \notin Top.firstOcc)
DirectoryCase ==
  HasNext /\ ~InPathStack(Top.pathStack, CurPath)
          /\ ~IsFile(CurResolved) /\ CurResolved.isDirectory
MissingCase ==
  HasNext /\ ~InPathStack(Top.pathStack, CurPath)
          /\ ~IsFile(CurResolved) /\ ~CurResolved.isDirectory
ReturnCase == Running /\ Depth > 1 /\ Top.k = Len(Top.refs)

\* compiler.ts:276-283: the target is an ancestor.
RefCircular ==
  /\ CircularCase
  /\ stack' = SetTop(PushRef(Top,
        [CompiledRef(Top.file, CurRef, CurResolved) EXCEPT
           !.found = FALSE, !.circular = TRUE, !.error = "circular"]))
  /\ UNCHANGED <<pc, importCounts, importedFiles, results, sorted, disk>>
  /\ FsUnchanged

\* compiler.ts:297-305: a repeated target becomes the self-closing stub.
RefStub ==
  /\ StubCase
  /\ importCounts' = BumpCount
  /\ stack' = SetTop(PushRef(
        [Top EXCEPT !.text = splice(@, CurRef.startIndex, CurRef.endIndex,
                                    referenceWrapper(CurPath))],
        [CompiledRef(Top.file, CurRef, CurResolved) EXCEPT
           !.importCount = CurCount + 1, !.importedFrom = Top.file,
           !.inlined = "stub"]))
  /\ UNCHANGED <<pc, importedFiles, results, sorted, disk>>
  /\ FsUnchanged

\* compiler.ts:306-335: the target is read and the compiler re-entered on it.
RefRecurse ==
  /\ InlineCase
  /\ CanRead(CurPath)
  /\ importCounts' = BumpCount
  /\ importedFiles' = importedFiles \cup {CurPath}
  /\ stack' = Append(
        SetTop([Top EXCEPT !.pending =
           [CompiledRef(Top.file, CurRef, CurResolved) EXCEPT
              !.importCount = CurCount + 1, !.importedFrom = Top.file]]),
        NewFrame(content[CurPath], CurPath, Top.basePath,
                 Append(Top.pathStack, CurPath),
                 childHeadingContext(headingMode, Top.headingContext,
                                     Top.contextMap[CurRef.startIndex]),
                 importedFiles', optimizeDuplicates))
  /\ UNCHANGED <<pc, results, sorted, disk>>
  /\ FsUnchanged

\* compiler.ts:310 throws, 351-354 catches: the target cannot be read.
RefReadError ==
  /\ InlineCase
  /\ ~CanRead(CurPath)
  /\ importCounts' = BumpCount
  /\ importedFiles' = importedFiles \cup {CurPath}
  /\ stack' = SetTop(PushRef(Top,
        [CompiledRef(Top.file, CurRef, CurResolved) EXCEPT
           !.importCount = CurCount + 1, !.importedFrom = Top.file,
           !.found = FALSE, !.error = "read"]))
  /\ UNCHANGED <<pc, results, sorted, disk>>
  /\ FsUnchanged

\* compiler.ts:355-357
RefDirectory ==
  /\ DirectoryCase
  /\ stack' = SetTop(PushRef(Top,
        [CompiledRef(Top.file, CurRef, CurResolved) EXCEPT
           !.found = FALSE, !.error = "directory"]))
  /\ UNCHANGED <<pc, importCounts, importedFiles, results, sorted, disk>>
  /\ FsUnchanged

\* compiler.ts:358-360
RefMissing ==
  /\ MissingCase
  /\ stack' = SetTop(PushRef(Top,
        [CompiledRef(Top.file, CurRef, CurResolved) EXCEPT !.error = "missing"]))
  /\ UNCHANGED <<pc, importCounts, importedFiles, results, sorted, disk>>
  /\ FsUnchanged

\* compiler.ts:365-384 in the callee, then 337-349 and 362 in the caller:
\* the nested invocation returns and its result is spliced into the caller.
Return ==
  /\ ReturnCase
  /\ LET nestedResult == FrameResult(Top, headingMode)
         caller == stack[Depth - 1]
         ref == sortedRefs(caller.refs)[caller.k + 1]
     IN stack' = [SubSeq(stack, 1, Depth - 1) EXCEPT ![Depth - 1] =
          [caller EXCEPT
             !.text = splice(@, ref.startIndex, ref.endIndex,
                        defaultContentWrapper(nestedResult.compiledContent,
                                              caller.pending.resolvedPath)),
             !.compiledRefs = (@ \o nestedResult.references)
                                \o <<[caller.pending EXCEPT !.inlined = "full"]>>,
             !.k = @ + 1,
             !.pending = NoRef]]
  /\ UNCHANGED <<pc, importCounts, importedFiles, results, sorted, disk>>
  /\ FsUnchanged

\* ------------------------------------------------- compileFileWithCache
Count(seq, Pred(_)) == Cardinality({i \in DOMAIN seq : Pred(seq[i])})
IsFound(r) == r.found
IsFailed(r) == ~r.found

\* Array.from(importCounts.entries()).filter(count > 1)
duplicateFilesOf(counts) == {p \in DOMAIN counts : counts[p] > 1}

\* The CompileResult built at compiler.ts:430-459.  countsShared says that
\* importStats.fileImportCounts is the run's own Map object, not a copy.
CompileResult(inputPath, r, written) ==
  [inputPath |-> inputPath,
   compiledContent |-> r.compiledContent,
   references |-> r.references,
   successCount |-> Count(r.references, IsFound),
   failedCount |-> Count(r.references, IsFailed),
   written |-> written,
   duplicateFiles |-> duplicateFilesOf(importCounts),
   countsShared |-> TRUE]

RootDone == Running /\ Depth = 1 /\ Top.k = Len(Top.refs)

\* Faulty variant: every document of a run starts from an empty imported-files set.
RootFrame_FreshCache(filePath, imported) ==
  NewFrame(content[filePath], filePath, dirname(filePath), <<filePath>>,
           initialHeadingContext(headingMode), {}, optimizeDuplicates)

\* The first frame of a compile of filePath with the given caches.
RootFrame(filePath, imported) ==
  NewFrame(content[filePath], filePath, dirname(filePath), <<filePath>>,
           initialHeadingContext(headingMode), imported, optimizeDuplicates)

\* ---------------------------------------------------------- compileFile
\* compiler.ts:465-475 and 405-428: fresh caches, the root file is read and
\* the engine entered with pathStack = [root].
CompileFile(filePath) ==
  /\ pc = "idle"
  /\ CanRead(filePath)
  /\ entry' = "file"
  /\ pc' = "run"
  /\ importCounts' = <<>>
  /\ importedFiles' = {}
  /\ stack' = <<RootFrame(filePath, {})>>
  /\ UNCHANGED <<args, ret, kind, content, optimizeDuplicates, headingMode, results, sorted, disk>>
  /\ ValidatorUnchanged /\ ProviderUnchanged

\* compiler.ts:406: readFileSync of the requested file throws.
CompileFileThrows(filePath) ==
  /\ pc = "idle"
  /\ ~CanRead(filePath)
  /\ entry' = "file"
  /\ pc' = "threw"
  /\ UNCHANGED <<args, ret, kind, content, optimizeDuplicates, headingMode, stack,
                 importCounts, importedFiles, results, sorted, disk>>
  /\ ValidatorUnchanged /\ ProviderUnchanged

\* compiler.ts:443-459 with writeOutput = false
FinishNoWrite ==
  /\ RootDone /\ entry = "file"
  /\ results' = <<CompileResult(Top.file, FrameResult(Top, headingMode), FALSE)>>
  /\ pc' = "done"
  /\ stack' = <<>>
  /\ UNCHANGED <<importCounts, importedFiles, sorted, disk>>
  /\ FsUnchanged

\* compiler.ts:443-459 with writeOutput = true and a successful write
FinishWrite ==
  /\ RootDone /\ entry = "file"
  /\ LET r == FrameResult(Top, headingMode)
     IN /\ results' = <<CompileResult(Top.file, r, TRUE)>>
        /\ disk' = (Top.file :> r.compiledContent) @@ disk
  /\ pc' = "done"
  /\ stack' = <<>>
  /\ UNCHANGED <<importCounts, importedFiles, sorted>>
  /\ FsUnchanged

\* compiler.ts:446: writeFileSync throws and compileFile with it.
FinishWriteThrows ==
  /\ RootDone /\ entry = "file"
  /\ pc' = "threw"
  /\ stack' = <<>>
  /\ UNCHANGED <<importCounts, importedFiles, results, sorted, disk>>
  /\ FsUnchanged

\* ------------------------------------------------------- compileContent
\* compiler.ts:481-514: the text is compiled as a virtual file under
\* basePath with an empty pathStack and fresh caches.
CompileContent(text) ==
  /\ pc = "idle"
  /\ entry' = "content"
  /\ pc' = "run"
  /\ importCounts' = <<>>
  /\ importedFiles' = {}
  /\ stack' = <<NewFrame(text, join(Root, VirtualName), Root, <<>>,
                         initialHeadingContext(headingMode), {}, optimizeDuplicates)>>
  /\ UNCHANGED <<args, ret, kind, content, optimizeDuplicates, headingMode, results, sorted, disk>>
  /\ ValidatorUnchanged /\ ProviderUnchanged

FinishContent ==
  /\ RootDone /\ entry = "content"
  /\ results' = <<CompileResult(Top.file, FrameResult(Top, headingMode), FALSE)>>
  /\ pc' = "done"
  /\ stack' = <<>>
  /\ UNCHANGED <<importCounts, importedFiles, sorted, disk>>
  /\ FsUnchanged

\* ------------------------------------------------------------------ Init
Kinds == {"file", "locked", "dir", "none"}

\* A document: its own heading line followed by its references.
Doc(p, refs) == <<HeadingTok(p, 1)>> \o [i \in DOMAIN refs |-> RefTok(refs[i])]

FileCount(p, n) == IF kind[p] = "file" THEN 0..n ELSE {0}

Init ==
  /\ kind \in [Paths -> Kinds]
  /\ \E na \in FileCount(P("a"), MaxTotalRefs) :
       \E nb \in FileCount(P("b"), MaxTotalRefs - na) :
         \E nc \in FileCount(P("c"), MaxTotalRefs - na - nb) :
           \E ra \in [1..na -> Names], rb \in [1..nb -> Names], rc \in [1..nc -> Names] :
              content = [p \in Paths |->
                 IF kind[p] # "file" THEN <<>>
                 ELSE IF p = P("a") THEN Doc(p, ra)
                 ELSE IF p = P("b") THEN Doc(p, rb)
                 ELSE Doc(p, rc)]
  /\ optimizeDuplicates \in BOOLEAN
  /\ headingMode \in {"normalize", "additive"}
  /\ entry = "none"
  /\ pc = "idle"
  /\ stack = <<>>
  /\ importCounts = <<>>
  /\ importedFiles = {}
  /\ results = <<>>
  /\ sorted = <<>>
  /\ disk = <<>>
  /\ args = <<>>
  /\ ret = <<>>
  /\ ValidatorIdle /\ ProviderIdle

\* ------------------------------------------------- dependency-graph.ts
\* path.relative(from, to) for a path to below from
relative(from, to) == SubSeq(to, Len(from) + 1, Len(to))

\* compiler.ts:551 and 589-591: outputDir defaults to inputDir/dist and, with
\* preserveStructure, a document keeps its relative path below it.
outputDir == join(Root, "dist")
outputPathOf(filePath) == outputDir \o relative(Root, filePath)

\* The order in which walk meets the paths below the input directory: its
\* own entries, then those of its subdirectory dist.
DiscoveryOrder ==
  <<P("a"), P("b"), P("c"),
    outputPathOf(P("a")), outputPathOf(P("b")), outputPathOf(P("c"))>>

IsMarkdownFile(p) == KindOf(p) \in {"file", "locked"}

findMarkdownFiles == SelectSeq(DiscoveryOrder, IsMarkdownFile)

\* The intra-set dependencies of one document: the resolved targets of its
\* references that are documents of the set.  A document that cannot be
\* read contributes no edge.
dependenciesOf(doc, docs) ==
  IF CanRead(doc)
  THEN LET references == extractReferences(content[doc])
       IN {resolvePath(Bare(references[i].path), dirname(doc), DefaultTryExtensions).resolvedPath :
             i \in DOMAIN references} \cap Range(docs)
  ELSE {}

buildDependencyGraph(docs) ==
  [nodes |-> docs,
   dependencies |-> [d \in Range(docs) |-> dependenciesOf(d, docs)],
   dependents |-> [d \in Range(docs) |->
                     {e \in Range(docs) : d \in dependenciesOf(e, docs)}],
   rootFiles |-> {d \in Range(docs) : dependenciesOf(d, docs) = {}}]

\* Kahn's algorithm with a FIFO queue: a node leaves the queue into the
\* output and every dependent loses one in-degree, joining the queue at zero.
RECURSIVE kahn(_, _, _, _)
kahn(graph, queue, inDegree, out) ==
  IF queue = <<>> THEN out
  ELSE LET node == Head(queue)
           lowered == [d \in DOMAIN inDegree |->
                         IF d \in graph.dependents[node]
                         THEN inDegree[d] - 1 ELSE inDegree[d]]
           Ready(d) == d \in graph.dependents[node] /\ lowered[d] = 0
       IN kahn(graph, Tail(queue) \o SelectSeq(graph.nodes, Ready),
               lowered, Append(out, node))

\* sorted: the Kahn order followed by the nodes it could not order, in
\* discovery order; cyclicNodes: those unordered nodes.
topologicalSort(graph) ==
  LET inDegree == [d \in Range(graph.nodes) |-> Cardinality(graph.dependencies[d])]
      Zero(d) == inDegree[d] = 0
      ordered == kahn(graph, SelectSeq(graph.nodes, Zero), inDegree, <<>>)
      Left(d) == d \notin Range(ordered)
  IN [sorted |-> ordered \o SelectSeq(graph.nodes, Left),
      cyclicNodes |-> SelectSeq(graph.nodes, Left)]

\* -------------------------------------------------------- compileFolder
\* Faulty variant: the failure is recorded without counting it.
FailureResult_NoCount(filePath) ==
  [inputPath |-> filePath,
   compiledContent |-> <<>>,
   references |-> <<>>,
   successCount |-> 0,
   failedCount |-> 0,
   written |-> FALSE,
   duplicateFiles |-> {},
   countsShared |-> FALSE]

\* compiler.ts:613-625: the result recorded for a document whose compile threw.
FailureResult(filePath) ==
  [inputPath |-> filePath,
   compiledContent |-> <<>>,
   references |-> <<>>,
   successCount |-> 0,
   failedCount |-> 1,
   written |-> FALSE,
   duplicateFiles |-> {},
   countsShared |-> FALSE]

\* Faulty variant: the loop never advances past the first document.
NextDocument_First(order, done) == order[1]

\* Faulty variant: the sorted list is walked from its end.
NextDocument_Backwards(order, done) == order[Len(order) - Len(done)]

\* for (const filePath of sorted): the document compiled next
NextDocument(order, done) == order[Len(done) + 1]

\* compiler.ts:556-568: no markdown file under the input directory.
CompileFolderEmpty ==
  /\ pc = "idle"
  /\ findMarkdownFiles = <<>>
  /\ entry' = "folder"
  /\ pc' = "done"
  /\ UNCHANGED <<args, ret, kind, content, optimizeDuplicates, headingMode, stack,
                 importCounts, importedFiles, results, sorted, disk>>
  /\ ValidatorUnchanged /\ ProviderUnchanged

\* compiler.ts:570-584: graph, order and the caches of the run.
CompileFolder ==
  /\ pc = "idle"
  /\ findMarkdownFiles # <<>>
  /\ entry' = "folder"
  /\ sorted' = topologicalSort(buildDependencyGraph(findMarkdownFiles)).sorted
  /\ importCounts' = <<>>
  /\ importedFiles' = {}
  /\ pc' = "next"
  /\ UNCHANGED <<args, ret, kind, content, optimizeDuplicates, headingMode, stack, results, disk>>
  /\ ValidatorUnchanged /\ ProviderUnchanged

\* compiler.ts:602 into 405-428: the next document is read and the engine
\* entered on it with the shared caches.
StartDocument ==
  /\ pc = "next" /\ Len(results) < Len(sorted)
  /\ CanRead(NextDocument(sorted, results))
  /\ stack' = <<RootFrame(NextDocument(sorted, results), importedFiles)>>
  /\ pc' = "run"
  /\ UNCHANGED <<importCounts, importedFiles, results, sorted, disk>>
  /\ FsUnchanged

\* compiler.ts:406 throws, 611-626 catches.
DocumentReadThrows ==
  /\ pc = "next" /\ Len(results) < Len(sorted)
  /\ ~CanRead(NextDocument(sorted, results))
  /\ results' = Append(results, FailureResult(NextDocument(sorted, results)))
  /\ UNCHANGED <<pc, stack, importCounts, importedFiles, sorted, disk>>
  /\ FsUnchanged

\* compiler.ts:430-459 with writeOutput = true, then 610.
FinishDocument ==
  /\ RootDone /\ entry = "folder"
  /\ LET r == FrameResult(Top, headingMode)
     IN /\ results' = Append(results, CompileResult(Top.file, r, TRUE))
        /\ disk' = (Top.file :> r.compiledContent) @@ disk
  /\ pc' = "next"
  /\ stack' = <<>>
  /\ UNCHANGED <<importCounts, importedFiles, sorted>>
  /\ FsUnchanged

\* compiler.ts:446 throws, 611-626 catches.
DocumentWriteThrows ==
  /\ RootDone /\ entry = "folder"
  /\ results' = Append(results, FailureResult(Top.file))
  /\ pc' = "next"
  /\ stack' = <<>>
  /\ UNCHANGED <<importCounts, importedFiles, sorted, disk>>
  /\ FsUnchanged

\* compiler.ts:598 throws outside the try: compileFolder itself throws.
MkdirThrows ==
  /\ pc = "next" /\ Len(results) < Len(sorted)
  /\ pc' = "threw"
  /\ UNCHANGED <<stack, importCounts, importedFiles, results, sorted, disk>>
  /\ FsUnchanged

\* compiler.ts:630 and 635-637: aggregates of the results.
totalFiles == Len(results)
circularFiles ==
  UNION {{results[i].references[j].resolvedPath :
            j \in {n \in DOMAIN results[i].references : results[i].references[n].circular}} :
         i \in DOMAIN results}

\* compiler.ts:629-649: the loop is over and the aggregate is returned.
FolderDone ==
  /\ pc = "next" /\ Len(results) = Len(sorted)
  /\ pc' = "done"
  /\ UNCHANGED <<stack, importCounts, importedFiles, results, sorted, disk>>
  /\ FsUnchanged

\* ------------------------------------------------------- specifications
Step ==
  \/ RefCircular
  \/ RefStub
  \/ RefRecurse
  \/ RefReadError
  \/ RefDirectory
  \/ RefMissing
  \/ Return

\* compileFile and compileContent, called on document a and on its text.
Next ==
  \/ CompileFile(P("a"))
  \/ CompileFileThrows(P("a"))
  \/ CompileContent(content[P("a")])
  \/ Step
  \/ FinishNoWrite
  \/ FinishWrite
  \/ FinishWriteThrows
  \/ FinishContent

Spec == Init /\ [][Next]_vars

\* compileFolder on the directory holding a, b and c.
NextFolder ==
  \/ CompileFolderEmpty
  \/ CompileFolder
  \/ MkdirThrows
  \/ StartDocument
  \/ DocumentReadThrows
  \/ Step
  \/ FinishDocument
  \/ DocumentWriteThrows
  \/ FolderDone

SpecFolder == Init /\ [][NextFolder]_vars

\* -------------------------------------------- resolvePath called directly
\* The file system a direct call of resolvePath runs against: a file system
\* root entry, entries of the base directory and of its subdirectory d.
ResolverPaths ==
  {<<"a">>, <<"r", "a">>, <<"r", "a.md">>, <<"r", "d">>,
   <<"r", "d", "a">>, <<"r", "d", "index.md">>}
ResolverKinds == {"file", "dir", "none"}
\* An entry exists only inside a directory.
WellFormedFs(k) ==
  \A p \in DOMAIN k :
    (k[p] # "none" /\ Len(p) = 3) => k[dirname(p)] = "dir"

ResolverArgs ==
  [refPath : {RefPath(l, segs) : l \in {"", "./", "../", "/"},
                                 segs \in {<<"a">>, <<"d">>}},
   basePath : {Root, <<"r", "d">>},
   tryExtensions : {<<>>, <<".md">>, <<".ts", ".md">>}]

InitResolve ==
  /\ kind \in {k \in [ResolverPaths -> ResolverKinds] : WellFormedFs(k)}
  /\ content = [p \in ResolverPaths |-> <<>>]
  /\ optimizeDuplicates = FALSE
  /\ headingMode = "normalize"
  /\ entry = "none"
  /\ pc = "idle"
  /\ stack = <<>>
  /\ importCounts = <<>>
  /\ importedFiles = {}
  /\ results = <<>>
  /\ sorted = <<>>
  /\ disk = <<>>
  /\ args \in ResolverArgs
  /\ ret = <<>>
  /\ ValidatorIdle /\ ProviderIdle

\* resolver.ts: resolvePath(refPath, { basePath, tryExtensions })
ResolvePath ==
  /\ pc = "idle"
  /\ ret' = resolvePath(args.refPath, args.basePath, args.tryExtensions)
  /\ pc' = "done"
  /\ UNCHANGED <<kind, content, entry, optimizeDuplicates, headingMode, stack,
                 importCounts, importedFiles, results, sorted, disk, args>>
  /\ ValidatorUnchanged /\ ProviderUnchanged

NextResolve == ResolvePath

SpecResolve == InitResolve /\ [][NextResolve]_vars

\* ------------------------------------------ documents with many headings
\* compileFile / compileContent with writeOutput = false on documents whose
\* headings have several levels.  Every file can be read and
\* optimizeDuplicates is off, so the loop body can only recurse or meet an
\* ancestor.
MaxDocLen == 3
HeadingLevels == {1, 2, 5}
\* A document as a list of items: 0 is a reference, any other number is a
\* heading of that level.
DocOf(p, target, items) ==
  [i \in DOMAIN items |->
     IF items[i] = 0 THEN RefTok(target) ELSE HeadingTok(p, items[i])]
ItemLists(levels, maxLen) ==
  {items \in UNION {[1..n -> levels \cup {0}] : n \in 0..maxLen} :
     Cardinality({i \in DOMAIN items : items[i] = 0}) <= 1}
RootItemLists == {<<0>>, <<1, 0>>, <<2, 0>>, <<2, 0, 1>>}

InitHeadings ==
  /\ kind = [p \in Paths |-> "file"]
  /\ \E ia \in RootItemLists, ib, ic \in ItemLists(HeadingLevels, MaxDocLen) :
       content = (P("a") :> DocOf(P("a"), "b", ia))
              @@ (P("b") :> DocOf(P("b"), "c", ib))
              @@ (P("c") :> DocOf(P("c"), "a", ic))
  /\ optimizeDuplicates = FALSE
  /\ headingMode \in {"normalize", "additive"}
  /\ entry = "none"
  /\ pc = "idle"
  /\ stack = <<>>
  /\ importCounts = <<>>
  /\ importedFiles = {}
  /\ results = <<>>
  /\ sorted = <<>>
  /\ disk = <<>>
  /\ args = <<>>
  /\ ret = <<>>
  /\ ValidatorIdle /\ ProviderIdle

NextHeadings ==
  \/ CompileFile(P("a"))
  \/ CompileContent(content[P("a")])
  \/ RefCircular
  \/ RefRecurse
  \/ Return
  \/ FinishNoWrite
  \/ FinishContent

SpecHeadings == InitHeadings /\ [][NextHeadings]_vars

\* ------------------------------------------ adjustHeadings called directly
MaxShift == 6
\* What a text given to adjustHeadings is made of: headings of every level,
\* the two tags of an inlined block and the tag of a stub.
AdjustTokens ==
  {HeadingTok(P("a"), lv) : lv \in 1..6}
    \cup {Tok("open", P("b"), "", 0), Tok("close", P("b"), "", 0),
          Tok("stub", P("b"), "", 0)}
AdjustArgs ==
  [content : UNION {[1..n -> AdjustTokens] : n \in 0..MaxDocLen},
   shiftAmount : (0 - MaxShift)..MaxShift,
   skipFileBlocks : BOOLEAN]

InitAdjust ==
  /\ kind = [p \in Paths |-> "none"]
  /\ content = [p \in Paths |-> <<>>]
  /\ optimizeDuplicates = FALSE
  /\ headingMode = "normalize"
  /\ entry = "none"
  /\ pc = "idle"
  /\ stack = <<>>
  /\ importCounts = <<>>
  /\ importedFiles = {}
  /\ results = <<>>
  /\ sorted = <<>>
  /\ disk = <<>>
  /\ args \in AdjustArgs
  /\ ret = <<>>
  /\ ValidatorIdle /\ ProviderIdle

\* heading-adjuster.ts: adjustHeadings(content, shiftAmount, false, skipFileBlocks)
AdjustHeadings ==
  /\ pc = "idle"
  /\ ret' = adjustHeadings(args.content, args.shiftAmount, args.skipFileBlocks)
  /\ pc' = "done"
  /\ UNCHANGED <<kind, content, entry, optimizeDuplicates, headingMode, stack,
                 importCounts, importedFiles, results, sorted, disk, args>>
  /\ ValidatorUnchanged /\ ProviderUnchanged

NextAdjust == AdjustHeadings

SpecAdjust == InitAdjust /\ [][NextAdjust]_vars

\* ------------------------------------------ documents without references
\* What a text without references is made of: a metadata block, headings of
\* the document, and what an earlier compile leaves behind: the tags of an
\* inlined block, a heading inside it, a stub.
PlainTokens ==
  {FrontMatterTok, HeadingTok(P("a"), 2), HeadingTok(P("a"), 5),
   HeadingTok(P("b"), 3), Tok("open", P("b"), "", 0), Tok("close", P("b"), "", 0),
   Tok("stub", P("b"), "", 0)}

InitPlain ==
  /\ kind = (P("a") :> "file") @@ (P("b") :> "none") @@ (P("c") :> "none")
  /\ \E text \in UNION {[1..n -> PlainTokens] : n \in 0..MaxDocLen} :
       content = (P("a") :> text) @@ (P("b") :> <<>>) @@ (P("c") :> <<>>)
  /\ optimizeDuplicates \in BOOLEAN
  /\ headingMode \in {"normalize", "additive"}
  /\ entry = "none"
  /\ pc = "idle"
  /\ stack = <<>>
  /\ importCounts = <<>>
  /\ importedFiles = {}
  /\ results = <<>>
  /\ sorted = <<>>
  /\ disk = <<>>
  /\ args = <<>>
  /\ ret = <<>>
  /\ ValidatorIdle /\ ProviderIdle

\* compileContent(result.compiledContent, options): the output of the
\* compile that has just finished is compiled in its turn; ret keeps the
\* result of the first compile.
CompileAgain ==
  /\ pc = "done" /\ ret = <<>>
  /\ ret' = results[1]
  /\ results' = <<>>
  /\ entry' = "content"
  /\ pc' = "run"
  /\ importCounts' = <<>>
  /\ importedFiles' = {}
  /\ stack' = <<NewFrame(results[1].compiledContent, join(Root, VirtualName), Root, <<>>,
                         initialHeadingContext(headingMode), {}, optimizeDuplicates)>>
  /\ UNCHANGED <<args, kind, content, optimizeDuplicates, headingMode, sorted, disk>>
  /\ ValidatorUnchanged /\ ProviderUnchanged

NextPlain ==
  \/ CompileFile(P("a"))
  \/ CompileContent(content[P("a")])
  \/ FinishNoWrite
  \/ FinishContent
  \/ CompileAgain

SpecPlain == InitPlain /\ [][NextPlain]_vars

\* ------------------------------------------ documents in two directories
\* compileFile on /r/a; /r/d is a directory that holds n and perhaps x, and
\* /r may hold an x of its own.
InDir(n) == <<"r", "d", n>>
DirRefs == {"d/n", "x", "d"}
DirDocs(p) ==
  {Doc(p, refs) : refs \in UNION {[1..n -> DirRefs] : n \in 0..2}}

InitDirs ==
  /\ \E kx, kdx \in {"file", "none"} :
       kind = (P("a") :> "file") @@ (P("d") :> "dir") @@ (InDir("n") :> "file")
                @@ (P("x") :> kx) @@ (InDir("x") :> kdx)
  /\ \E da \in DirDocs(P("a")), dn \in DirDocs(InDir("n")) :
       content = (P("a") :> da) @@ (P("d") :> <<>>) @@ (InDir("n") :> dn)
                   @@ (P("x") :> <<HeadingTok(P("x"), 1)>>)
                   @@ (InDir("x") :> <<HeadingTok(InDir("x"), 1)>>)
  /\ optimizeDuplicates \in BOOLEAN
  /\ headingMode \in {"normalize", "additive"}
  /\ entry = "none"
  /\ pc = "idle"
  /\ stack = <<>>
  /\ importCounts = <<>>
  /\ importedFiles = {}
  /\ results = <<>>
  /\ sorted = <<>>
  /\ disk = <<>>
  /\ args = <<>>
  /\ ret = <<>>
  /\ ValidatorIdle /\ ProviderIdle

NextDirs ==
  \/ CompileFile(P("a"))
  \/ RefCircular
  \/ RefStub
  \/ RefRecurse
  \/ RefDirectory
  \/ RefMissing
  \/ Return
  \/ FinishNoWrite

SpecDirs == InitDirs /\ [][NextDirs]_vars

\* ------------------------------------------ validateReferencesRecursive
\* fs.realpathSync: the file system of the model has no symbolic links.
realpathSync(p) == p

\* Faulty variant: the visited set is never consulted.
hasVisited_Never(visited, p) == FALSE

\* visitedPaths.has(realPath)
hasVisited(visited, p) == realpathSync(p) \in visited

\* The locals of one invocation that got past the visited check:
\* the references of the text in source order, how many are done, and the
\* list allResolvedRefs.
ValidationFrame(file, text) ==
  [file |-> file, refs |-> extractReferences(text), k |-> 0, allResolvedRefs |-> <<>>]
ResolvedReference(file, ref, resolution) ==
  [doc |-> file, startIndex |-> ref.startIndex, path |-> ref.path,
   resolution |-> resolution]
ValidationResult(allResolvedRefs) ==
  [references |-> allResolvedRefs,
   stats |-> [total   |-> Len(allResolvedRefs),
              valid   |-> Cardinality({i \in DOMAIN allResolvedRefs :
                                         allResolvedRefs[i].resolution.exists}),
              invalid |-> Cardinality({i \in DOMAIN allResolvedRefs :
                                         ~allResolvedRefs[i].resolution.exists})]]

Validating == pc = "run" /\ entry = "validate" /\ Depth > 0
ValidateHasNext == Validating /\ Top.k < Len(Top.refs)
ValidateRef == Top.refs[Top.k + 1]
\* basePath is the directory of the top-level file, kept for the whole call.
ValidateResolution == resolvePath(Bare(ValidateRef.path), Root, DefaultTryExtensions)
WantsRecursion ==
  /\ ValidateHasNext
  /\ ValidateResolution.exists /\ ~ValidateResolution.isDirectory
  /\ ~hasVisited(visitedPaths, ValidateResolution.resolvedPath)
PushResolved(f) ==
  [f EXCEPT !.allResolvedRefs =
              Append(@, ResolvedReference(f.file, ValidateRef, ValidateResolution)),
            !.k = @ + 1]

\* validateFile(filePath) without `shallow`: the file is read and the
\* top-level invocation marks it visited and scans it.
ValidateFile(filePath) ==
  /\ pc = "idle"
  /\ CanRead(filePath)
  /\ entry' = "validate"
  /\ pc' = "run"
  /\ visitedPaths' = {realpathSync(filePath)}
  /\ scans' = (filePath :> 1)
  /\ stack' = <<ValidationFrame(filePath, content[filePath])>>
  /\ UNCHANGED <<kind, content, optimizeDuplicates, headingMode, importCounts,
                 importedFiles, results, sorted, disk, args, ret>>
  /\ ProviderUnchanged

\* validateFile: readFileSync throws.
ValidateFileThrows(filePath) ==
  /\ pc = "idle"
  /\ ~CanRead(filePath)
  /\ entry' = "validate"
  /\ pc' = "threw"
  /\ UNCHANGED <<kind, content, optimizeDuplicates, headingMode, stack, importCounts,
                 importedFiles, results, sorted, disk, args, ret>>
  /\ ValidatorUnchanged /\ ProviderUnchanged

\* The reference is recorded and nothing is read: the target is missing,
\* is a directory or has been visited.
ValidateNoRecursion ==
  /\ ValidateHasNext /\ ~WantsRecursion
  /\ stack' = SetTop(PushResolved(Top))
  /\ UNCHANGED <<kind, content, entry, optimizeDuplicates, headingMode, pc, importCounts,
                 importedFiles, results, sorted, disk, args, ret>>
  /\ ValidatorUnchanged /\ ProviderUnchanged

\* readFileSync throws inside the try: the recursion is skipped.
ValidateReadError ==
  /\ WantsRecursion
  /\ ~CanRead(ValidateResolution.resolvedPath)
  /\ stack' = SetTop(PushResolved(Top))
  /\ UNCHANGED <<kind, content, entry, optimizeDuplicates, headingMode, pc, importCounts,
                 importedFiles, results, sorted, disk, args, ret>>
  /\ ValidatorUnchanged /\ ProviderUnchanged

\* The reference is recorded, the target read and the function re-entered
\* on it with the shared set; the nested invocation marks the target
\* visited and scans it.
ValidateRecurse ==
  /\ WantsRecursion
  /\ CanRead(ValidateResolution.resolvedPath)
  /\ LET target == ValidateResolution.resolvedPath
     IN /\ visitedPaths' = visitedPaths \cup {realpathSync(target)}
        /\ scans' = (target :> (IF target \in DOMAIN scans THEN scans[target] ELSE 0) + 1)
                      @@ scans
        /\ stack' = Append(
             SetTop([Top EXCEPT !.allResolvedRefs =
                Append(@, ResolvedReference(Top.file, ValidateRef, ValidateResolution))]),
             ValidationFrame(target, content[target]))
  /\ UNCHANGED <<kind, content, entry, optimizeDuplicates, headingMode, pc, importCounts,
                 importedFiles, results, sorted, disk, args, ret>>
  /\ ProviderUnchanged

\* A nested invocation returns: its references are appended to the caller's.
ValidateReturn ==
  /\ Validating /\ Depth > 1 /\ Top.k = Len(Top.refs)
  /\ LET nestedResult == ValidationResult(Top.allResolvedRefs)
         caller == stack[Depth - 1]
     IN stack' = [SubSeq(stack, 1, Depth - 1) EXCEPT ![Depth - 1] =
          [caller EXCEPT !.allResolvedRefs = @ \o nestedResult.references,
                         !.k = @ + 1]]
  /\ UNCHANGED <<kind, content, entry, optimizeDuplicates, headingMode, pc, importCounts,
                 importedFiles, results, sorted, disk, args, ret>>
  /\ ValidatorUnchanged /\ ProviderUnchanged

\* The top-level invocation returns.
ValidateDone ==
  /\ Validating /\ Depth = 1 /\ Top.k = Len(Top.refs)
  /\ ret' = ValidationResult(Top.allResolvedRefs)
  /\ pc' = "done"
  /\ stack' = <<>>
  /\ UNCHANGED <<kind, content, entry, optimizeDuplicates, headingMode, importCounts,
                 importedFiles, results, sorted, disk, args>>
  /\ ValidatorUnchanged /\ ProviderUnchanged

InitValidate == Init /\ ~optimizeDuplicates /\ headingMode = "normalize"

NextValidate ==
  \/ ValidateFile(P("a"))
  \/ ValidateFileThrows(P("a"))
  \/ ValidateNoRecursion
  \/ ValidateReadError
  \/ ValidateRecurse
  \/ ValidateReturn
  \/ ValidateDone

SpecValidate == InitValidate /\ [][NextValidate]_vars

\* ------------------------------------------ parser.ts on raw text
\* A raw text is a sequence of characters.  "@" stands for a whole
\* well-formed reference such as @a.md, "x" for any other visible
\* character; Tick is the backtick and LineFeed the line feed.
MaxPieces == 5
Tick == "backtick"
LineFeed == "LF"
Pieces == {<<Tick, Tick, Tick>>, <<Tick>>, <<LineFeed>>, <<" ">>, <<"x">>, <<"@">>}
RECURSIVE Flatten(_)
Flatten(pieces) ==
  IF pieces = <<>> THEN <<>> ELSE Head(pieces) \o Flatten(Tail(pieces))
RawTexts == {Flatten(ps) : ps \in UNION {[1..n -> Pieces] : n \in 0..MaxPieces}}

\* A range {start, end} of 0-based offsets, end exclusive.
CodeRange(start, end) == [start |-> start, end |-> end]
\* text[offset] with a 0-based offset
CharAt(text, offset) == text[offset + 1]
FenceAt(text, offset) ==
  /\ offset + 3 <= Len(text)
  /\ \A d \in 0..2 : CharAt(text, offset + d) = Tick

\* The matches of /```[\s\S]*?```/g from offset `from` on.
RECURSIVE codeBlockMatches(_, _)
codeBlockMatches(text, from) ==
  LET closers(s) == {q \in (s + 3)..(Len(text) - 1) : FenceAt(text, q)}
      starts == {s \in from..(Len(text) - 1) : FenceAt(text, s) /\ closers(s) # {}}
  IN IF starts = {} THEN {}
     ELSE LET s == MinOf(starts)
              q == MinOf(closers(s))
          IN {CodeRange(s, q + 3)} \cup codeBlockMatches(text, q + 3)

\* !isInsideCodeBlock: the match of the inline pattern does not lie within
\* one of the fenced blocks, start and end.
keepInline(matchStart, matchEnd, ranges) ==
  ~\E range \in ranges : matchStart >= range.start /\ matchEnd <= range.end

\* The matches of /`[^`\n]+`/g from offset `from` on that are kept.
RECURSIVE inlineCodeMatches(_, _, _)
inlineCodeMatches(text, from, ranges) ==
  LET closer(s) == {e \in (s + 2)..(Len(text) - 1) :
                      /\ CharAt(text, e) = Tick
                      /\ \A m \in (s + 1)..(e - 1) :
                           CharAt(text, m) \notin {Tick, LineFeed}}
      starts == {s \in from..(Len(text) - 1) : CharAt(text, s) = Tick /\ closer(s) # {}}
  IN IF starts = {} THEN {}
     ELSE LET s == MinOf(starts)
              e == MinOf(closer(s))
          IN (IF keepInline(s, e + 1, ranges) THEN {CodeRange(s, e + 1)} ELSE {})
               \cup inlineCodeMatches(text, e + 1, ranges)

findCodeSpanRanges(text) ==
  LET ranges == codeBlockMatches(text, 0)
  IN ranges \cup inlineCodeMatches(text, 0, ranges)

isInsideCodeSpan(offset, codeRanges) ==
  \E range \in codeRanges : offset >= range.start /\ offset < range.end

\* The offsets where AT_REFERENCE_PATTERN finds a reference: an "@" at the
\* start of a line or after white space.  Such a match has no word
\* character before it, so looksLikeEmail is false for it, and its path is
\* valid by the reading of "@".
patternMatches(text) ==
  {o \in 0..(Len(text) - 1) :
     /\ CharAt(text, o) = "@"
     /\ (o = 0 \/ CharAt(text, o - 1) \in {" ", LineFeed})}

\* extractReferences(content) on a raw text: the start offsets of the
\* references it returns.
extractReferencesOfText(text) ==
  LET codeSpanRanges == findCodeSpanRanges(text)
  IN {o \in patternMatches(text) : ~isInsideCodeSpan(o, codeSpanRanges)}

InitParse ==
  /\ kind = [p \in Paths |-> "none"]
  /\ content = [p \in Paths |-> <<>>]
  /\ optimizeDuplicates = FALSE
  /\ headingMode = "normalize"
  /\ entry = "none"
  /\ pc = "idle"
  /\ stack = <<>>
  /\ importCounts = <<>>
  /\ importedFiles = {}
  /\ results = <<>>
  /\ sorted = <<>>
  /\ disk = <<>>
  /\ args \in [text : RawTexts]
  /\ ret = <<>>
  /\ ValidatorIdle /\ ProviderIdle

\* parser.ts: extractReferences(content)
ExtractReferences ==
  /\ pc = "idle"
  /\ ret' = [startIndexes |-> extractReferencesOfText(args.text)]
  /\ pc' = "done"
  /\ UNCHANGED <<kind, content, entry, optimizeDuplicates, headingMode, stack,
                 importCounts, importedFiles, results, sorted, disk, args>>
  /\ ValidatorUnchanged /\ ProviderUnchanged

NextParse == ExtractReferences

SpecParse == InitParse /\ [][NextParse]_vars

\* ============================================================== claims
A == P("a")
B == P("b")
C == P("c")
Virtual == join(Root, VirtualName)

Terminated == pc \in {"done", "threw"}
ResolvableFiles == {p \in Paths : KindOf(p) \in {"file", "locked"}}

\* The records of a finished compileFile/compileContent call.
Refs == IF Len(results) > 0 THEN results[1].references ELSE <<>>
RefSet == Range(Refs)
Output == IF Len(results) > 0 THEN results[1].compiledContent ELSE <<>>
CountTok(text, k, p) == Cardinality({i \in DOMAIN text : text[i].k = k /\ text[i].p = p})
HasRec(doc, target, inlined) ==
  \E r \in RefSet : r.doc = doc /\ r.resolvedPath = target /\ r.inlined = inlined

\* ------------------------------------------------------------------ C1
C1_DepthBounded == Depth <= Cardinality(ResolvableFiles) + 1

\* The work left in a run, as a number that every step lowers: the frames
\* of the call stack read as the digits of a numeral, outermost first, each
\* digit the references its invocation has not finished yet (an invocation
\* waiting for a nested one has its current reference in progress).
RankBase == MaxTotalRefs + 2
RankDepth == Cardinality(Paths) + 1
Remaining(i) ==
  IF i = Depth THEN Len(stack[i].refs) - stack[i].k
  ELSE Len(stack[i].refs) - stack[i].k - 1
RECURSIVE RankFrom(_)
RankFrom(i) ==
  IF i > Depth \/ i > RankDepth THEN 0
  ELSE (Remaining(i) + 1) * RankBase ^ (RankDepth - i) + RankFrom(i + 1)
Rank ==
  IF Terminated THEN 0
  ELSE IF pc = "idle" THEN 2 * RankBase ^ (RankDepth + 1)
  ELSE 1 + RankFrom(1)

\* Some action of the run is enabled: the call itself, one branch of the
\* loop body, the return of a nested invocation or the end of the root one.
CanStep ==
  \/ pc = "idle"
  \/ CircularCase \/ StubCase \/ InlineCase \/ DirectoryCase \/ MissingCase
  \/ ReturnCase
  \/ RootDone

\* C1: compileFile and compileContent terminate on every file set, whatever
\* cycles the references form and with duplicate-optimization on or off:
\* the recursion depth never exceeds the number of resolvable files plus
\* one, every step lowers the work left, and a run that has not returned or
\* thrown can always take a step.
C1_Terminates ==
  /\ [](C1_DepthBounded /\ (Terminated \/ CanStep))
  /\ [][Rank' < Rank]_vars

\* A compileContent run over the cycle a -> b -> c -> a that went four
\* invocations deep (the text, b, c, a) and finished.
C1_Witness ==
  /\ pc = "done" /\ entry = "content"
  /\ HasRec(Virtual, B, "full") /\ HasRec(B, C, "full") /\ HasRec(C, A, "full")
  /\ \E r \in RefSet : r.doc = A /\ r.resolvedPath = B /\ r.circular

\* ------------------------------------------------------------------ C2
TwoCycle ==
  /\ kind[A] = "file" /\ kind[B] = "file"
  /\ content[A] = Doc(A, <<"b">>) /\ content[B] = Doc(B, <<"a">>)

CircularRecs == {i \in DOMAIN Refs : Refs[i].circular}

\* C2: with a referencing b and b referencing a (and nothing else), the
\* output of compileFile(a) holds a's own text exactly once and b's text
\* exactly once, and the reference list holds exactly one record with
\* circular = true, whose resolvedPath is a.
C2_CycleOnce ==
  (pc = "done" /\ entry = "file" /\ TwoCycle) =>
     /\ CountTok(Output, "h", A) = 1
     /\ CountTok(Output, "h", B) = 1
     /\ Cardinality(CircularRecs) = 1
     /\ \A i \in CircularRecs : Refs[i].resolvedPath = A

\* compileFile(a) with default options has returned on the two-cycle.
C2_Witness ==
  /\ pc = "done" /\ entry = "file" /\ TwoCycle
  /\ ~optimizeDuplicates /\ headingMode = "normalize"
  /\ results[1].written

\* ------------------------------------------------------------------ C3
C3_StackDistinct ==
  \A i \in DOMAIN stack :
    \A m, n \in DOMAIN stack[i].pathStack :
      m # n => stack[i].pathStack[m] # stack[i].pathStack[n]

LastRec(f) == f.compiledRefs[Len(f.compiledRefs)]

\* The step taken on a reference whose target is an ancestor.
C3_CircularStep ==
  CircularCase =>
     /\ Depth' = Depth
     /\ Top'.k = Top.k + 1
     /\ Top'.text = Top.text
     /\ Len(Top'.compiledRefs) = Len(Top.compiledRefs) + 1
     /\ LastRec(Top').circular /\ ~LastRec(Top').found
     /\ LastRec(Top').inlined = "none"
     /\ LastRec(Top').resolvedPath = CurPath
     /\ importCounts' = importCounts
     /\ importedFiles' = importedFiles

\* C3: in every invocation the path stack holds pairwise distinct paths,
\* and a reference whose resolved path is in the stack is recorded with
\* circular = true and found = false, is neither recursed into nor replaced
\* by a stub, and leaves the working text, the import counts and the
\* imported-files set unchanged, also when duplicate-optimization is on and
\* the path is already in the imported-files set.
C3_Circular == []C3_StackDistinct /\ [][C3_CircularStep]_vars

\* A circular record for a path that duplicate-optimization has already
\* put in the imported-files set.
C3_Witness ==
  /\ pc = "done" /\ optimizeDuplicates
  /\ \E r \in RefSet : r.circular /\ ~r.found /\ r.resolvedPath \in importedFiles

\* ------------------------------------------------------------------ C4
\* The current reference is missing, a directory, circular or unreadable.
TargetFails ==
  /\ HasNext
  /\ \/ InPathStack(Top.pathStack, CurPath)
     \/ ~CurResolved.exists
     \/ CurResolved.isDirectory
     \/ ~CanRead(CurPath)

C4_FailureStep ==
  TargetFails =>
     /\ pc' = "run"
     /\ Depth' = Depth
     /\ Top'.k = Top.k + 1
     /\ Top'.text = Top.text
     /\ ~LastRec(Top').found /\ LastRec(Top').error # ""
     /\ LastRec(Top').startIndex = CurRef.startIndex

C4_SiblingStep ==
  (HasNext /\ ~TargetFails) =>
     /\ pc' = "run"
     /\ \/ Depth' = Depth + 1
        \/ /\ Depth' = Depth
           /\ Top'.k = Top.k + 1
           /\ LastRec(Top').found /\ LastRec(Top').inlined = "stub"

C4_OnlyRootReadThrows ==
  /\ (pc = "idle" /\ pc' = "threw") => ~CanRead(A)
  /\ (pc = "idle" /\ pc' = "run" /\ entry' = "file") => CanRead(A)

\* C4: a reference that is missing, a directory, circular or unreadable
\* yields a record with found = false and an error message and leaves its
\* text unchanged; every other reference of the document is still processed
\* and inlined when it resolves to a readable file; no failed reference
\* makes the call throw, only an unreadable top-level document does.
C4_FailuresAreLocal ==
  [][C4_FailureStep /\ C4_SiblingStep /\ C4_OnlyRootReadThrows]_vars

\* ------------------------------------------------------------------ C5
RootDoc == IF entry = "file" THEN A ELSE Virtual

\* The root text references the same readable file twice and nothing else.
TwiceSame(x) ==
  /\ kind[A] = "file" /\ content[A] = Doc(A, <<x, x>>)
  /\ kind[P(x)] = "file"
  /\ entry = "file" => P(x) # A

RootRec(startIndex) ==
  CHOOSE r \in RefSet : r.doc = RootDoc /\ r.startIndex = startIndex

\* C5: when the root references the same existing file twice, with
\* optimizeDuplicates the first occurrence is replaced by the full wrapped
\* content and the second by the self-closing stub with the same path, and
\* without it both occurrences are replaced by the full wrapped content.
C5_FirstFullThenStub ==
  \A x \in Names :
    (pc = "done" /\ entry \in {"file", "content"} /\ TwiceSame(x)) =>
       /\ RootRec(1).inlined = "full" /\ RootRec(1).resolvedPath = P(x)
       /\ Output[2] = Tok("open", P(x), "", 0)
       /\ IF optimizeDuplicates
          THEN /\ RootRec(2).inlined = "stub" /\ RootRec(2).resolvedPath = P(x)
               /\ Output[Len(Output)] = Tok("stub", P(x), "", 0)
               /\ CountTok(Output, "open", P(x)) = 1
          ELSE /\ RootRec(2).inlined = "full" /\ RootRec(2).resolvedPath = P(x)
               /\ Output[Len(Output)] = Tok("close", P(x), "", 0)
               /\ CountTok(Output, "open", P(x)) = 2
               /\ CountTok(Output, "stub", P(x)) = 0

\* compileFile(a) with optimizeDuplicates has returned on a = "@b @b".
C5_Witness ==
  /\ pc = "done" /\ entry = "file" /\ optimizeDuplicates /\ TwiceSame("b")
  /\ CountTok(Output, "stub", B) = 1

\* ------------------------------------------------------------------ C6
\* The places of the run's outputs where p is inlined in full, and where a
\* stub stands for it.
TokAt(k, p) ==
  UNION {{<<i, j>> : j \in {n \in DOMAIN results[i].compiledContent :
                              results[i].compiledContent[n] = Tok(k, p, "", 0)}} :
         i \in DOMAIN results}
OpenAt(p) == TokAt("open", p)
StubAt(p) == TokAt("stub", p)

\* C6: with optimizeDuplicates, within one run each resolved path is inlined
\* with its full content at most once.
C6_InlinedAtMostOnce ==
  (pc = "done" /\ optimizeDuplicates) =>
     \A p \in Paths : Cardinality(OpenAt(p)) <= 1

\* ------------------------------------------------------------------ C7
\* C7: at the end of a run with optimizeDuplicates, every path that a stub
\* of some output carries is inlined in full in some output of the run.
C7_StubsPointAtContent ==
  (pc = "done" /\ optimizeDuplicates) =>
     \A p \in Paths : StubAt(p) # {} => OpenAt(p) # {}

\* ------------------------------------------------------------------ C8
InFolder(p) == p \in Range(findMarkdownFiles)
References(x, y) ==
  /\ CanRead(x)
  /\ \E i \in DOMAIN content[x] :
       /\ content[x][i].k = "ref"
       /\ resolvePath(Bare(content[x][i].ref), dirname(x), DefaultTryExtensions).resolvedPath = y
HasResult(p) == \E i \in DOMAIN results : results[i].inputPath = p
IndexOf(p) == CHOOSE i \in DOMAIN results : results[i].inputPath = p
ResultOf(p) == results[IndexOf(p)]

\* x and y are the two documents that reference the readable file z, and
\* both have been compiled and written.
SharedByTwo(x, y, z) ==
  /\ x # y /\ x # z /\ y # z
  /\ kind[z] = "file"
  /\ References(x, z) /\ References(y, z)
  /\ \A w \in Paths \ {x, y, z} : ~References(w, z)
  /\ HasResult(x) /\ HasResult(y)
  /\ ResultOf(x).written /\ ResultOf(y).written
  /\ IndexOf(x) < IndexOf(y)

C9_CompiledBeforeIsStub ==
  (pc = "done" /\ entry = "folder" /\ optimizeDuplicates) =>
     \A x, y \in Paths :
       ( /\ x # y /\ InFolder(x) /\ InFolder(y)
         /\ References(x, y)
         /\ ResultOf(x).written /\ ResultOf(y).written
         /\ IndexOf(y) < IndexOf(x) ) =>
          /\ CountTok(ResultOf(x).compiledContent, "stub", y) >= 1
          /\ CountTok(ResultOf(x).compiledContent, "open", y) = 0

\* ----------------------------------------------------------------- C10
\* The documents reachable from x along references inside the folder.
RECURSIVE ReachableFrom(_, _)
ReachableFrom(seen, n) ==
  IF n = 0 THEN seen
  ELSE ReachableFrom(
         seen \cup {y \in Paths : InFolder(y) /\ \E x \in seen : References(x, y)},
         n - 1)
DependsOn(x) ==
  ReachableFrom({y \in Paths : InFolder(y) /\ References(x, y)}, Cardinality(Paths))
Acyclic == \A x \in Paths : InFolder(x) => x \notin DependsOn(x)

\* C10: when the references among the folder's documents are acyclic and
\* document x references document y, the result of y precedes the result
\* of x in FolderCompileResult.results.
C10_DependencyFirst ==
  entry = "folder" =>
     \A x, y \in Paths :
       ( /\ HasResult(x) /\ InFolder(y) /\ References(x, y)
         /\ Acyclic ) =>
          HasResult(y) /\ IndexOf(y) < IndexOf(x)

\* The chain a -> b -> c has been compiled as c, b, a.
C10_Witness ==
  /\ pc = "done" /\ entry = "folder" /\ Acyclic
  /\ References(A, B) /\ References(B, C) /\ kind[C] = "file"
  /\ Len(results) = 3
  /\ results[1].inputPath = C /\ results[2].inputPath = B /\ results[3].inputPath = A
  /\ results[3].written

\* ----------------------------------------------------------------- C11
\* C11: compileFolder returns exactly one result per markdown file found
\* under the input directory, on a dependency cycle or not: totalFiles is
\* the number of discovered files, and no file is compiled twice or skipped.
C11_OneResultPerFile ==
  (pc = "done" /\ entry = "folder") =>
     /\ totalFiles = Len(findMarkdownFiles)
     /\ \A p \in Paths :
          Cardinality({i \in DOMAIN results : results[i].inputPath = p})
            = IF InFolder(p) THEN 1 ELSE 0

\* Three documents on one cycle, all compiled.
C11_Witness ==
  /\ pc = "done" /\ entry = "folder"
  /\ References(A, B) /\ References(B, C) /\ References(C, A)
  /\ totalFiles = 3
  /\ \A i \in DOMAIN results : results[i].written

\* ----------------------------------------------------------------- C12
OnCycle(x) == InFolder(x) /\ x \in DependsOn(x)

\* C12: in compileFolder every document of the folder that lies on a
\* reference cycle is a member of circularFiles, with optimizeDuplicates on
\* or off and for cycles of any length (stated for runs in which every
\* document was compiled and written).
C12_CycleMembersFlagged ==
  (pc = "done" /\ entry = "folder" /\ \A i \in DOMAIN results : results[i].written) =>
     \A x \in Paths : OnCycle(x) => x \in circularFiles

\* ----------------------------------------------------------------- C13
\* C13: the nodes topologicalSort reports as cyclic are exactly the nodes
\* that are members of a dependency cycle.
C13_CyclicAreCycleMembers ==
  entry = "folder" =>
     Range(topologicalSort(buildDependencyGraph(findMarkdownFiles)).cyclicNodes)
       = {x \in Paths : OnCycle(x)}

\* ----------------------------------------------------------------- C14
\* The result appended by one step of the folder loop.
C14_Step ==
  (entry = "folder" /\ Len(results') = Len(results) + 1) =>
     LET r == results'[Len(results')]
     IN /\ r.inputPath = sorted[Len(results')]
        /\ pc' = "next"
        /\ ~CanRead(r.inputPath) => ~r.written
        /\ ~r.written =>
             /\ r.failedCount = 1
             /\ r.references = <<>>
             /\ r.compiledContent = <<>>
             /\ disk' = disk

\* C14: in compileFolder a document whose compile throws (unreadable input
\* or failed write) is recorded as one result with failedCount 1,
\* written = false and no references, and every remaining document of the
\* sorted list is still compiled and gets its own result.
C14_FailureIsOneResult ==
  /\ [][C14_Step]_vars
  /\ []((pc = "done" /\ entry = "folder" /\ sorted # <<>>) =>
          /\ Len(results) = Len(sorted)
          /\ \A i \in DOMAIN results : results[i].inputPath = sorted[i])
  /\ []((entry = "folder" /\ pc = "next") => Len(results) <= Len(sorted))

\* The first document failed and a later one was compiled and written.
C14_Witness ==
  /\ pc = "done" /\ entry = "folder" /\ Len(results) = 3
  /\ ~results[1].written /\ results[1].failedCount = 1 /\ CanRead(results[1].inputPath)
  /\ ~results[2].written /\ ~CanRead(results[2].inputPath)
  /\ results[3].written

\* ----------------------------------------------------------------- C19
IsUnder(dir, p) == Len(p) > Len(dir) /\ SubSeq(p, 1, Len(dir)) = dir

\* C19: resolvePath treats a reference path with a leading "/" as
\* base-relative: the resolved path lies under the base directory and is
\* never the file-system-root path.
C19_LeadingSlashIsBaseRelative ==
  (pc = "done" /\ args.refPath.lead = "/") =>
     /\ IsUnder(args.basePath, ret.resolvedPath)
     /\ ret.resolvedPath # args.refPath.segs

\* ----------------------------------------------------------------- C20
\* The extensions of the call for which the directory dir holds an index file.
IndexExts(dir) ==
  {i \in DOMAIN args.tryExtensions :
     KindOf(indexPath(dir, args.tryExtensions[i])) = "file"}

\* C20: a reference to a directory that holds index<ext> for some ext of
\* tryExtensions resolves to that index file, with exists = true and
\* isDirectory = false.
C20_DirectoryResolvesToIndex ==
  LET dir == resolve(args.basePath, args.refPath)
  IN (pc = "done" /\ ~isAbsolute(args.refPath)
        /\ KindOf(dir) = "dir" /\ IndexExts(dir) # {}) =>
       /\ ret.resolvedPath = indexPath(dir, args.tryExtensions[MinOf(IndexExts(dir))])
       /\ ret.exists /\ ~ret.isDirectory

\* ----------------------------------------------------------------- C15
\* The invocation that is returning, its caller, and the block the caller
\* holds for it after the return.
Caller == stack[Depth - 1]
\* Level of the last heading before the reference being expanded in f.
ContextLevelOf(f) ==
  LET before == {i \in 1..f.pending.startIndex : f.text[i].k = "h"}
  IN IF before = {} THEN 0 ELSE f.text[MaxOf(before)].lv
InlinedBlock ==
  SubSeq(stack'[Depth - 1].text, Caller.pending.startIndex + 2,
         Caller.pending.startIndex + 1 + Len(Top.text))
HeadingsOf(text) == {i \in DOMAIN text : text[i].k = "h"}
Min6(n) == IF n > 6 THEN 6 ELSE n

\* A document is inlined into the root document in normalize mode.
C15_Step ==
  (headingMode = "normalize" /\ ReturnCase /\ Depth = 2 /\ HeadingsOf(Top.text) # {}) =>
     LET first == MinOf(HeadingsOf(Top.text))
         target == Min6(ContextLevelOf(Caller) + 1)
     IN /\ InlinedBlock[first].lv = target
        /\ \A h \in HeadingsOf(Top.text) :
             \/ InlinedBlock[h].lv - target = Top.text[h].lv - Top.text[first].lv
             \/ InlinedBlock[h].lv \in {1, 6}

\* C15: in normalize mode, when a document is inlined at a reference whose
\* heading context level is C, the first heading of the inlined block ends
\* at level min(6, C+1) and every other heading of the block, those of
\* nested documents included, keeps its distance to the first heading
\* unless it is clamped to 1..6.
C15_NormalizeToContext == [][C15_Step]_vars

\* ----------------------------------------------------------------- C16
RECURSIVE CumulativeContext(_)
CumulativeContext(n) ==
  IF n = 0 THEN 0 ELSE ContextLevelOf(stack[n]) + CumulativeContext(n - 1)

\* An invocation returns in additive mode: its own headings move by the
\* sum of the context levels of the chain, the headings of the blocks
\* already inlined in it do not move.
C16_Step ==
  (headingMode = "additive" /\ ReturnCase) =>
     \A h \in HeadingsOf(Top.text) :
       IF Top.text[h].p = Top.file
       THEN InlinedBlock[h].lv = Min6(Top.text[h].lv + CumulativeContext(Depth - 1))
       ELSE InlinedBlock[h].lv = Top.text[h].lv

\* C16: in additive mode every heading of a document inlined through a
\* chain of references with context levels c1..cn ends at level
\* min(6, L + c1 + ... + cn): it is shifted once by the cumulative context
\* and never again when an enclosing document is adjusted.
C16_AdditiveShiftOnce == [][C16_Step]_vars

\* ----------------------------------------------------------------- C17
\* The positions adjustHeadings may not touch in the text it was given.
ExcludedIn(c, skipFileBlocks) ==
  IF ~skipFileBlocks THEN {}
  ELSE {i \in DOMAIN c :
          \E o \in 1..i :
            /\ c[o].k \in {"open", "stub"}
            /\ \/ o = i /\ c[o].k = "stub"
               \/ \E e \in i..Len(c) :
                    /\ c[e].k = "close"
                    /\ \A m \in (o + 1)..(e - 1) : c[m].k # "close"
                    /\ o <= i}
Shifted(lv, shift) ==
  LET t == lv + shift
  IN IF t < 1 THEN 1 ELSE IF t > 6 THEN 6 ELSE t

\* C17: adjustHeadings maps every heading of level L in 1..6 outside the
\* excluded ranges to level max(1, min(6, L + shift)) for every integer
\* shift, so no heading of the output is deeper than level 6 or shallower
\* than level 1; everything else is returned as it was.
C17_ShiftClamped ==
  (pc = "done" /\ "shiftAmount" \in DOMAIN args) =>
     /\ Len(ret) = Len(args.content)
     /\ \A i \in DOMAIN args.content :
          LET t == args.content[i]
          IN IF t.k = "h"
             THEN /\ ret[i].lv \in 1..6
                  /\ ret[i] = [t EXCEPT !.lv = ret[i].lv]
                  /\ i \notin ExcludedIn(args.content, args.skipFileBlocks)
                       => ret[i].lv = Shifted(t.lv, args.shiftAmount)
             ELSE ret[i] = t

\* A level-2 heading met the shift -5 and came out at level 1.
C17_Witness ==
  /\ pc = "done" /\ "shiftAmount" \in DOMAIN args
  /\ args.shiftAmount = 0 - 5
  /\ \E i \in DOMAIN args.content :
       args.content[i].k = "h" /\ args.content[i].lv = 2 /\ ret[i].lv = 1

\* ----------------------------------------------------------------- C18
\* The text with a leading metadata block taken off.
WithoutLeadingBlock(text) ==
  IF text # <<>> /\ Head(text) = FrontMatterTok
  THEN SubSeq(text, 2, Len(text)) ELSE text
FirstCompileDone == pc = "done" /\ ret = <<>> /\ Len(results) = 1
SecondCompileDone == pc = "done" /\ ret # <<>> /\ Len(results) = 1
\* After the first compile of a document without references.
C18_First ==
  FirstCompileDone =>
    /\ results[1].compiledContent = WithoutLeadingBlock(content[P("a")])
    /\ results[1].references = <<>>

C21_RelativeToReferencingFile ==
  (pc = "done" /\ entry = "file" /\ Len(results) = 1) =>
     \A i \in DOMAIN results[1].references :
       LET rec == results[1].references[i]
       IN rec.resolvedPath = dirname(rec.doc) \o segmentsOf(rec.path)

\* ----------------------------------------------------------------- C22
CountOf(counts, p) == IF p \in DOMAIN counts THEN counts[p] ELSE 0
\* The loop is about to process a reference to an existing file that is
\* not an ancestor.
ProcessesFileRef(t) ==
  /\ pc = "run" /\ stack # <<>>
  /\ Top.k < Len(Top.refs)
  /\ t = Top.basePath \o segmentsOf(sortedRefs(Top.refs)[Top.k + 1].path)
  /\ KindOf(t) \in {"file", "locked"}
  /\ \A i \in DOMAIN Top.pathStack : Top.pathStack[i] # t
C22_Step ==
  /\ \A p \in DOMAIN importCounts :
       p \in DOMAIN importCounts' /\ importCounts'[p] >= importCounts[p]
  /\ \A t \in DOMAIN kind :
       IF ProcessesFileRef(t)
       THEN importCounts'[t] = CountOf(importCounts, t) + 1
       ELSE CountOf(importCounts', t) = CountOf(importCounts, t)

\* C22: within one run the import count of every path never decreases: no
\* step removes a path from the import-count map or lowers its count, and
\* each processed non-circular reference to an existing file raises the
\* count of its resolved path by exactly one, every other count staying.
C22_CountsMonotonic == [][C22_Step]_vars

\* A second document of a folder run has raised a count to 2 or more while
\* another path is in the map.
C22_Witness ==
  /\ entry = "folder" /\ Len(results) >= 1
  /\ \E p, q \in DOMAIN importCounts : p # q /\ importCounts[p] >= 2

\* ----------------------------------------------------------------- C23
\* The files whose text a validation started at `from` can get to: targets
\* that exist as readable regular files, followed transitively.
RefTargets(p) ==
  {Root \o segmentsOf(content[p][i].ref) : i \in {j \in DOMAIN content[p] : content[p][j].k = "ref"}}
RECURSIVE ReadableClosure(_)
ReadableClosure(S) ==
  LET more == {q \in UNION {RefTargets(p) : p \in S} : KindOf(q) = "file"} \ S
  IN IF more = {} THEN S ELSE ReadableClosure(S \cup more)
RefPositions(p) == {i - 1 : i \in {j \in DOMAIN content[p] : content[p][j].k = "ref"}}

\* The work left in a validation: the files not yet visited weigh most,
\* then the references not yet finished in the invocations on the stack.
ValidateWeight == 2 * MaxTotalRefs + 2
RECURSIVE PendingRefs(_)
PendingRefs(i) ==
  IF i = 0 THEN 0 ELSE (Len(stack[i].refs) - stack[i].k) + PendingRefs(i - 1)
ValidateRank ==
  IF Terminated THEN 0
  ELSE IF pc = "idle" THEN (Cardinality(Paths) + 2) * ValidateWeight
  ELSE 1 + Cardinality(Paths \ visitedPaths) * ValidateWeight
         + 2 * PendingRefs(Depth) + Depth
ValidateCanStep ==
  \/ pc = "idle"
  \/ ValidateHasNext
  \/ Validating /\ Top.k = Len(Top.refs)
C23_CountedOnce ==
  (pc = "done" /\ entry = "validate") =>
     /\ \A p \in DOMAIN scans : scans[p] = 1
     /\ DOMAIN scans = ReadableClosure({A})
     /\ \A p \in ReadableClosure({A}) : \A s \in RefPositions(p) :
          Cardinality({i \in DOMAIN ret.references :
                         ret.references[i].doc = p /\ ret.references[i].startIndex = s}) = 1
     /\ \A i \in DOMAIN ret.references :
          /\ ret.references[i].doc \in ReadableClosure({A})
          /\ ret.references[i].startIndex \in RefPositions(ret.references[i].doc)
     /\ ret.stats.total = Len(ret.references)

\* C23: validateReferencesRecursive terminates on every set of files,
\* cyclic references included (every step lowers the work left and a call
\* that has not returned can take a step), no file is scanned twice in one
\* top-level call, and stats.total counts each direct reference of each
\* reachable file exactly once.
C23_ValidationTerminates ==
  /\ []((Terminated \/ ValidateCanStep) /\ C23_CountedOnce
        /\ \A p \in DOMAIN scans : scans[p] <= 1)
  /\ [][ValidateRank' < ValidateRank]_vars

\* x references y and y references x: both scanned once, total 2.
C23_Witness ==
  /\ pc = "done" /\ entry = "validate"
  /\ content[A] = Doc(A, <<"b">>) /\ content[B] = Doc(B, <<"a">>)
  /\ kind[A] = "file" /\ kind[B] = "file"
  /\ scans = (A :> 1) @@ (B :> 1)
  /\ ret.stats.total = 2

\* ----------------------------------------------------------------- C24
\* The offsets inside a fenced block: from a fence to the next fence, the
\* fences included, pairing the fences from left to right.
FencedOffsets(text) ==
  UNION {b.start..(b.end - 1) : b \in codeBlockMatches(text, 0)}
\* The offsets inside an inline code span: from a backtick that is not
\* part of a fenced block to the next backtick on the same line, with at
\* least one character in between, pairing from left to right.
RECURSIVE InlineOffsets(_, _)
InlineOffsets(text, from) ==
  IF from >= Len(text) THEN {}
  ELSE LET next == {e \in (from + 1)..(Len(text) - 1) : CharAt(text, e) = Tick}
           e == MinOf(next)
       IN IF /\ CharAt(text, from) = Tick
             /\ from \notin FencedOffsets(text)
             /\ next # {} /\ e >= from + 2
             /\ \A m \in (from + 1)..(e - 1) : CharAt(text, m) # LineFeed
          THEN (from..e) \cup InlineOffsets(text, e + 1)
          ELSE InlineOffsets(text, from + 1)
CodeOffsets(text) == FencedOffsets(text) \cup InlineOffsets(text, 0)
Extracted == pc = "done" /\ "text" \in DOMAIN args

\* The half that holds: no reference is yielded from inside code.
NoneInsideCode ==
  Extracted => ret.startIndexes \cap CodeOffsets(args.text) = {}

\* C24: extractReferences never yields a reference whose "@" lies inside a
\* fenced code block or an inline code span, and yields every reference of
\* the same text that lies outside the code spans; no inline span is
\* detected from inside a fenced block.
C24_CodeSpansOnly ==
  Extracted =>
    ret.startIndexes = patternMatches(args.text) \ CodeOffsets(args.text)

\* ----------------------------------------------------------------- C25
\* The references of an invocation whose replacement has not been made.
Unprocessed(f) ==
  {n \in DOMAIN f.refs :
     ~\E i \in DOMAIN f.compiledRefs :
        /\ f.compiledRefs[i].doc = f.file
        /\ f.compiledRefs[i].startIndex = f.refs[n].startIndex}

\* C25: the references of a document are replaced in descending
\* start-offset order, so as long as a reference has not been processed
\* the working text between its startIndex and endIndex is exactly its raw
\* text, whatever has been spliced in for the references after it.
C25_OffsetsStayValid ==
  (pc = "run") =>
     \A d \in DOMAIN stack : \A n \in Unprocessed(stack[d]) :
       LET f == stack[d]
           r == f.refs[n]
       IN /\ r.endIndex <= Len(f.text)
          /\ SubSeq(f.text, r.startIndex + 1, r.endIndex) = <<RefTok(r.path)>>

\* A block longer than the reference it replaces and a stub have been
\* spliced in, and an earlier reference of the same text is still to come.
C25_Witness ==
  /\ pc = "run" /\ entry = "file" /\ Depth = 1
  /\ Top.k = 2 /\ Len(Top.refs) = 3
  /\ Len(Top.text) > Len(content[Top.file])
  /\ \E i \in DOMAIN Top.text : Top.text[i].k = "stub"

\* ----------------------------------------------------------------- C26
\* The document is expanded once in the run, so that its records in the
\* flat list all come from the same expansion.
ExpandedOnce(d) ==
  \/ d = RootDoc
  \/ Cardinality({i \in DOMAIN Refs : Refs[i].inlined = "full" /\ Refs[i].resolvedPath = d}) = 1

\* C26: the reference list returned by a compile is in forward source
\* order at every nesting depth: the records of the references of one
\* document appear in ascending start-offset order, and the record of a
\* reference precedes the records of the references found in the content
\* it inlined.
C26_ForwardOrder ==
  (pc = "done" /\ Len(results) = 1) =>
     /\ \A i, j \in DOMAIN Refs :
          (i < j /\ Refs[i].doc = Refs[j].doc /\ ExpandedOnce(Refs[i].doc))
             => Refs[i].startIndex < Refs[j].startIndex
     /\ \A i, j \in DOMAIN Refs :
          (Refs[i].inlined = "full" /\ Refs[j].doc = Refs[i].resolvedPath
             /\ ExpandedOnce(Refs[j].doc))
             => i < j

\* ----------------------------------------------------------------- C27
\* C27: in the output of one compileFile call with optimizeDuplicates, a
\* stub for a path never stands at an earlier position of the compiled
\* text than the full inlined content of that path.
C27_FullBeforeStub ==
  (pc = "done" /\ entry = "file" /\ optimizeDuplicates /\ Len(results) = 1) =>
     \A p \in Paths :
       \A s \in StubAt(p), o \in OpenAt(p) : o[2] < s[2]

\* ------------------------------------------------------------------ C28
\* importStats.fileImportCounts as a caller of compileFolder reads it: the
\* run's Map object where the result holds that object (compiler.ts:438-441),
\* the fresh empty Map of a failure record otherwise (compiler.ts:621-624).
fileImportCountsOf(result) ==
  IF result.countsShared THEN importCounts ELSE <<>>

\* C28: when compileFolder has returned, every per-document result has
\* duplicateFiles equal to the set of paths whose count in that same
\* result's fileImportCounts is greater than 1.
C28_StatsConsistent ==
  (pc = "done" /\ entry = "folder") =>
     \A i \in DOMAIN results :
       results[i].duplicateFiles = duplicateFilesOf(fileImportCountsOf(results[i]))

\* ------------------------------------------------------------------ C29
\* compileFolder called a second time on the same directory.  disk holds
\* what writeFileSync wrote, under the input path of each document; the
\* second call finds those files at their output paths.  No reference of
\* the first run names a path below dist, so the first run reads none of them.
WrittenPaths == {outputPathOf(p) : p \in DOMAIN disk}
WrittenFrom(q) == CHOOSE p \in DOMAIN disk : outputPathOf(p) = q

\* Between the two calls: the caller keeps the results the first call
\* returned (ret) and calls compileFolder again, on a directory that now
\* holds the written files.
CallAgain ==
  /\ pc = "done" /\ entry = "folder" /\ ret = <<>>
  /\ kind' = [q \in WrittenPaths |-> "file"] @@ kind
  /\ content' = [q \in WrittenPaths |-> disk[WrittenFrom(q)]] @@ content
  /\ ret' = <<results>>
  /\ results' = <<>>
  /\ sorted' = <<>>
  /\ pc' = "idle"
  /\ UNCHANGED <<args, entry, optimizeDuplicates, headingMode, stack,
                 importCounts, importedFiles, disk>>
  /\ ValidatorUnchanged /\ ProviderUnchanged

\* Default options on a directory whose entries are regular files.
InitRerun ==
  /\ Init
  /\ \A p \in Paths : kind[p] \in {"file", "none"}
  /\ ~optimizeDuplicates
  /\ headingMode = "normalize"

NextRerun ==
  \/ CompileFolderEmpty
  \/ CompileFolder
  \/ StartDocument
  \/ RefCircular
  \/ RefRecurse
  \/ RefMissing
  \/ Return
  \/ FinishDocument
  \/ FolderDone
  \/ CallAgain

SpecRerun == InitRerun /\ [][NextRerun]_vars

\* The input documents of a list of per-document results.
InputsOf(rs) == {rs[i].inputPath : i \in DOMAIN rs}

\* C29: when the second of two successive compileFolder calls on the same
\* directory has returned, it has compiled the same set of documents as the
\* first: no file written by the first call is an input of the second.
C29_SameDocumentsTwice ==
  (pc = "done" /\ entry = "folder" /\ Len(ret) = 1) =>
     InputsOf(results) = InputsOf(ret[1])

\* ------------------------------------------- diagnosticsProvider.ts
\* The documents of the editor are the files of the workspace folder Root;
\* an edit leaves the references of its document as they are.
MaxTimers == 2
TimerIds == 1..MaxTimers

\* uri.toString(): the key of a document in debounceTimers
KeyOf(document) == document

\* map.delete(key) and collection.delete(uri)
Without(map, key) == [k \in DOMAIN map \ {key} |-> map[k]]

\* diagnosticsProvider.ts:154-195: one diagnostic per reference whose
\* target does not exist, named by the offset of the reference.
diagnosticsOf(document) ==
  LET refs == extractReferences(content[document])
  IN {refs[i].startIndex :
        i \in {j \in DOMAIN refs :
                 ~resolvePath(Bare(refs[j].path), Root, <<>>).exists}}

\* diagnosticsProvider.ts:154-198: validateDocument ends with
\* diagnosticCollection.set(document.uri, diagnostics).
validateDocument(document) ==
  (document :> diagnosticsOf(document)) @@ diagnosticCollection

ProviderOnly ==
  /\ UNCHANGED <<kind, content, entry, optimizeDuplicates, headingMode, pc, stack,
                 importCounts, importedFiles, results, sorted, disk, args, ret>>
  /\ ValidatorUnchanged

\* diagnosticsProvider.ts:20-26: onDidOpenTextDocument
OpenTextDocument(doc) ==
  /\ doc \notin openDocuments /\ CanRead(doc)
  /\ openDocuments' = openDocuments \cup {doc}
  /\ diagnosticCollection' = validateDocument(doc)
  /\ UNCHANGED <<debounceTimers, timers>>
  /\ ProviderOnly

\* diagnosticsProvider.ts:29-35: onDidSaveTextDocument
SaveTextDocument(doc) ==
  /\ doc \in openDocuments
  /\ diagnosticCollection' = validateDocument(doc)
  /\ UNCHANGED <<openDocuments, debounceTimers, timers>>
  /\ ProviderOnly

\* diagnosticsProvider.ts:38-44 into 79-92: onDidChangeTextDocument calls
\* debouncedValidate, which clears the timer recorded for the document and
\* starts a new one.
ChangeTextDocument(doc) ==
  /\ doc \in openDocuments
  /\ LET key == KeyOf(doc)
         existing == IF key \in DOMAIN debounceTimers
                     THEN {t \in timers : t.id = debounceTimers[key]} ELSE {}
         pending == timers \ existing
         free == TimerIds \ {t.id : t \in pending}
     IN /\ free # {}
        /\ timers' = pending \cup {[id |-> MinOf(free), document |-> doc]}
        /\ debounceTimers' = (key :> MinOf(free)) @@ debounceTimers
  /\ UNCHANGED <<openDocuments, diagnosticCollection>>
  /\ ProviderOnly

\* diagnosticsProvider.ts:47-54: onDidCloseTextDocument
CloseTextDocument(doc) ==
  /\ doc \in openDocuments
  /\ openDocuments' = openDocuments \ {doc}
  /\ diagnosticCollection' = Without(diagnosticCollection, doc)
  /\ debounceTimers' = Without(debounceTimers, KeyOf(doc))
  /\ UNCHANGED timers
  /\ ProviderOnly

\* diagnosticsProvider.ts:86-89: the callback of a debounce timer runs.
TimerFires(timer) ==
  /\ timer \in timers
  /\ timers' = timers \ {timer}
  /\ diagnosticCollection' = validateDocument(timer.document)
  /\ debounceTimers' = Without(debounceTimers, KeyOf(timer.document))
  /\ UNCHANGED openDocuments
  /\ ProviderOnly

\* No document is open when the provider is constructed.
InitProvider == InitRerun

NextProvider ==
  \/ \E doc \in Paths : OpenTextDocument(doc)
  \/ \E doc \in Paths : SaveTextDocument(doc)
  \/ \E doc \in Paths : ChangeTextDocument(doc)
  \/ \E doc \in Paths : CloseTextDocument(doc)
  \/ \E timer \in timers : TimerFires(timer)

SpecProvider == InitProvider /\ [][NextProvider]_vars

\* ------------------------------------------------------------------ C30
\* The diagnostics the collection shows for a document.
PublishedFor(doc) ==
  IF doc \in DOMAIN diagnosticCollection THEN diagnosticCollection[doc] ELSE {}

\* C30: a document that is not open has no diagnostics: after its close no
\* pending debounce timer publishes diagnostics for it, in any interleaving
\* of open, change, save, close and timer events.
C30_ClosedStaysCleared ==
  \A doc \in Paths : doc \notin openDocuments => PublishedFor(doc) = {}
====
